---------------------------- MODULE Spec2Model ----------------------------
(***************************************************************************)
(* A model of csv2sql.py: a command-line program that reads a CSV file and *)
(* prints a SQL query (a WITH ... UNION ALL of one SELECT per data row).   *)
(*                                                                         *)
(* Strings are sequences of one-character strings, so that strip, replace, *)
(* re.sub and float() are computed character by character.  A generated    *)
(* text is a sequence of atoms: the fixed fragments of the program's       *)
(* f-strings are one atom each (their text is never inspected), the data   *)
(* put between them (cell values, column names, the quotes around a value) *)
(* is one atom per character.                                              *)
(***************************************************************************)
EXTENDS Integers, Sequences, FiniteSets, TLC

VARIABLES
    argv,          \* sys.argv[1:], the command-line arguments
    file,          \* what the path names on disk (fixed during a run)
    pc,            \* the position of the run
    columns,       \* csv_to_sql: the sanitized header
    rows,          \* csv_to_sql: the data rows
    column_types,  \* csv_to_sql: the dict name -> SQL type
    i,             \* csv_to_sql: the index (0-based) of the next row of the loop
    sql_parts,     \* csv_to_sql: the list of text parts
    result,        \* main: the string csv_to_sql returned
    exc,           \* the exception in flight
    stdout,        \* the texts printed to standard output, in order
    stderr,        \* the texts printed to standard error, in order
    exit_code,     \* the process's exit status
    arg,           \* unit runs: the argument of the function applied
    ret            \* unit runs: what the function returned or raised

vars == <<argv, file, pc, columns, rows, column_types, i, sql_parts, result,
          exc, stdout, stderr, exit_code, arg, ret>>

(***************************************************************************)
(* Bounds of the model.                                                    *)
(***************************************************************************)
MaxRows == 2        \* data rows of a file
MaxValueLen == 3    \* characters of a cell given to infer_sql_type alone
MaxHeaderLen == 3   \* characters of a header given to clean_column_name alone

(***************************************************************************)
(* Characters and the str methods the program uses.                        *)
(***************************************************************************)
Digits == {"0", "1", "2", "3", "4", "5", "6", "7", "8", "9"}

Lower == {"a", "b", "c", "d", "e", "f", "g", "h", "i", "j", "k", "l", "m",
          "n", "o", "p", "q", "r", "s", "t", "u", "v", "w", "x", "y", "z"}

Upper == {"A", "B", "C", "D", "E", "F", "G", "H", "I", "J", "K", "L", "M",
          "N", "O", "P", "Q", "R", "S", "T", "U", "V", "W", "X", "Y", "Z"}

\* The characters str.strip() removes (Python's ASCII whitespace).
Whitespace == {" ", "\t", "\n", "\r", "\f"}

NONE == "none"

RECURSIVE lstrip(_)
lstrip(s) ==
    IF s # <<>> /\ Head(s) \in Whitespace THEN lstrip(Tail(s)) ELSE s

RECURSIVE rstrip(_)
rstrip(s) ==
    IF s # <<>> /\ s[Len(s)] \in Whitespace
    THEN rstrip(SubSeq(s, 1, Len(s) - 1))
    ELSE s

\* str.strip()
strip(s) == rstrip(lstrip(s))

\* str.replace("'", "''")
RECURSIVE replace_quote(_)
replace_quote(s) ==
    IF s = <<>> THEN <<>>
    ELSE (IF Head(s) = "'" THEN <<"'", "'">> ELSE <<Head(s)>>)
         \o replace_quote(Tail(s))

\* re.sub(r'[^a-zA-Z0-9_]', '_', s)
re_sub(s) ==
    [k \in 1..Len(s) |->
        IF s[k] \in Lower \cup Upper \cup Digits \cup {"_"} THEN s[k] ELSE "_"]

\* An exception: its class, and str(e) as atoms, each "%d" atom standing for
\* the next number of nums.
Exception(type, msg, nums) ==
    [raised |-> TRUE, type |-> type, msg |-> msg, nums |-> nums]
Raised(type, msg) == Exception(type, msg, <<>>)
Returned(v) == [raised |-> FALSE, value |-> v]
\* no exception in flight
NoException == [raised |-> FALSE]

(***************************************************************************)
(* clean_column_name                                                       *)
(***************************************************************************)
clean_column_name(column) ==
    LET clean_name == re_sub(strip(column)) IN
    IF clean_name = <<>>
    THEN \* clean_name[0] of an empty string
         Raised("IndexError", <<"string index out of range">>)
    ELSE IF clean_name[1] \in Digits
         THEN Returned(<<"c", "o", "l", "_">> \o clean_name)
         ELSE Returned(clean_name)

(***************************************************************************)
(* float(value), for the strings that reach it.  The value is kept exact:  *)
(* a sign, the digits before the point and the digits after it.  A double  *)
(* holds every decimal of at most 15 significant digits distinctly, so for *)
(* the strings of this model is_integer() and the comparisons with 2**31   *)
(* give what they give on the exact value.                                 *)
(***************************************************************************)
RECURSIVE DigitRun(_, _)
\* the number of consecutive digits of s from position p on
DigitRun(s, p) ==
    IF p <= Len(s) /\ s[p] \in Digits THEN 1 + DigitRun(s, p + 1) ELSE 0

float(s) ==
    LET signed == s # <<>> /\ s[1] \in {"-", "+"}
        p0     == IF signed THEN 2 ELSE 1
        n1     == DigitRun(s, p0)
        p1     == p0 + n1
        dot    == p1 <= Len(s) /\ s[p1] = "."
        p2     == IF dot THEN p1 + 1 ELSE p1
        n2     == IF dot THEN DigitRun(s, p2) ELSE 0
        p3     == p2 + n2
    IN  IF n1 + n2 >= 1 /\ p3 = Len(s) + 1
        THEN Returned([neg  |-> signed /\ s[1] = "-",
                       int  |-> SubSeq(s, p0, p1 - 1),
                       frac |-> SubSeq(s, p2, p3 - 1)])
        ELSE Raised("ValueError", <<"could not convert string to float">>)

\* float.is_integer()
is_integer(f) == \A k \in 1..Len(f.frac) : f.frac[k] = "0"

RECURSIVE StripZeros(_)
StripZeros(d) ==
    IF d # <<>> /\ Head(d) = "0" THEN StripZeros(Tail(d)) ELSE d

DigitVal(c) ==
    CASE c = "0" -> 0 [] c = "1" -> 1 [] c = "2" -> 2 [] c = "3" -> 3
      [] c = "4" -> 4 [] c = "5" -> 5 [] c = "6" -> 6 [] c = "7" -> 7
      [] c = "8" -> 8 [] c = "9" -> 9

RECURSIVE LexLE(_, _)
\* a <= b for digit strings of the same length
LexLE(a, b) ==
    IF a = <<>> THEN TRUE
    ELSE IF DigitVal(Head(a)) # DigitVal(Head(b))
         THEN DigitVal(Head(a)) < DigitVal(Head(b))
         ELSE LexLE(Tail(a), Tail(b))

\* a <= b for the magnitudes written by the digit strings a and b
MagLE(a, b) ==
    LET x == StripZeros(a)
        y == StripZeros(b)
    IN  Len(x) < Len(y) \/ (Len(x) = Len(y) /\ LexLE(x, y))

\* 2**31 and 2**31 - 1
Pow31 == <<"2", "1", "4", "7", "4", "8", "3", "6", "4", "8">>
Pow31m1 == <<"2", "1", "4", "7", "4", "8", "3", "6", "4", "7">>

\* -2**31 <= f <= 2**31 - 1, for an integral f
in_int32(f) ==
    IF f.neg THEN MagLE(f.int, Pow31) ELSE MagLE(f.int, Pow31m1)

(***************************************************************************)
(* infer_sql_type: the pair (formatted_value, sql_type)                    *)
(***************************************************************************)
NumberChars == Digits \cup {".", "-"}

infer_sql_type_no_zero_check(value0) ==
    LET value == strip(value0) IN
    IF \/ value = <<>>
       \/ value[1] = "+"
       \/ \E k \in 1..Len(value) : value[k] \notin NumberChars
    THEN <<replace_quote(value), "TEXT">>
    ELSE LET f == float(value) IN
         IF f.raised THEN <<replace_quote(value), "TEXT">>
         ELSE IF is_integer(f.value) /\ in_int32(f.value)
              THEN <<value, "INTEGER">>
              ELSE <<value, "NUMERIC">>

infer_sql_type(value0) ==
    LET value == strip(value0) IN
    IF \/ value = <<>>
       \/ value[1] = "+"
       \/ value[1] = "0"
       \/ \E k \in 1..Len(value) : value[k] \notin NumberChars
    THEN <<replace_quote(value), "TEXT">>
    ELSE LET f == float(value) IN
         IF f.raised THEN <<replace_quote(value), "TEXT">>
         ELSE IF is_integer(f.value) /\ in_int32(f.value)
              THEN <<value, "INTEGER">>
              ELSE <<value, "NUMERIC">>

(***************************************************************************)
(* get_data.  csv.reader is the library's: the file is given as the        *)
(* records the reader yields, and "bad" is the number of the record at     *)
(* which the reader raises csv.Error (0: it never does).                   *)
(***************************************************************************)
File(kind, records, bad) == [kind |-> kind, records |-> records, bad |-> bad]

Range(s) == {s[k] : k \in 1..Len(s)}

CsvError ==
    Raised("csv.Error", <<"Error parsing CSV file: ", "<csv.Error>">>)

get_data_keeps_header(fl, file_path) ==
    IF fl.kind = "missing"
    THEN Raised("FileNotFoundError", <<"Could not find file: ", file_path>>)
    ELSE IF fl.kind = "unreadable"
    THEN Raised("PermissionError", <<"<PermissionError>">>)
    ELSE IF fl.bad = 1 THEN CsvError
    ELSE IF fl.records = <<>> THEN Raised("StopIteration", <<>>)
    ELSE IF fl.records[1] = <<>>
    THEN Raised("ValueError", <<"CSV file appears to be empty">>)
    ELSE LET header  == fl.records[1]
             cleaned == [k \in 1..Len(header) |-> clean_column_name(header[k])]
             failed  == {k \in 1..Len(header) : cleaned[k].raised}
         IN  IF failed # {}
             THEN cleaned[CHOOSE k \in failed : \A m \in failed : k <= m]
             ELSE IF fl.bad > 1 THEN CsvError
             ELSE IF Tail(fl.records) = <<>>
             THEN Raised("ValueError", <<"CSV file contains no data rows">>)
             ELSE Returned([columns |-> [k \in 1..Len(header) |-> cleaned[k].value],
                            rows    |-> fl.records])

get_data(fl, file_path) ==
    IF fl.kind = "missing"
    THEN Raised("FileNotFoundError", <<"Could not find file: ", file_path>>)
    ELSE IF fl.kind = "unreadable"
    THEN Raised("PermissionError", <<"<PermissionError>">>)
    ELSE IF fl.bad = 1 THEN CsvError
    ELSE IF fl.records = <<>> THEN Raised("StopIteration", <<>>)
    ELSE IF fl.records[1] = <<>>
    THEN Raised("ValueError", <<"CSV file appears to be empty">>)
    ELSE LET header  == fl.records[1]
             cleaned == [k \in 1..Len(header) |-> clean_column_name(header[k])]
             failed  == {k \in 1..Len(header) : cleaned[k].raised}
         IN  IF failed # {}
             THEN cleaned[CHOOSE k \in failed : \A m \in failed : k <= m]
             ELSE IF fl.bad > 1 THEN CsvError
             ELSE IF Tail(fl.records) = <<>>
             THEN Raised("ValueError", <<"CSV file contains no data rows">>)
             ELSE Returned([columns |-> [k \in 1..Len(header) |-> cleaned[k].value],
                            rows    |-> Tail(fl.records)])

(***************************************************************************)
(* get_column_types: the dict is a function on the set of column names.    *)
(***************************************************************************)
Min(a, b) == IF a <= b THEN a ELSE b

RECURSIVE scan_row(_, _, _, _)
\* for col, val in zip(columns, row), from the k-th pair on
scan_row(types, cols, row, k) ==
    IF k > Min(Len(cols), Len(row)) THEN types
    ELSE LET col           == cols[k]
             current_type  == types[col]
             inferred_type == infer_sql_type(row[k])[2]
         IN  IF current_type = "TEXT" THEN scan_row(types, cols, row, k + 1)
             ELSE IF inferred_type = "TEXT"
             THEN scan_row([types EXCEPT ![col] = "TEXT"], cols, row, k + 1)
             ELSE IF inferred_type = "NUMERIC" /\ current_type = "INTEGER"
             THEN scan_row([types EXCEPT ![col] = "NUMERIC"], cols, row, k + 1)
             ELSE scan_row(types, cols, row, k + 1)

RECURSIVE scan_rows(_, _, _, _)
\* for row in rows, from the r-th row on
scan_rows(types, cols, rws, r) ==
    IF r > Len(rws) THEN types
    ELSE scan_rows(scan_row(types, cols, rws[r], 1), cols, rws, r + 1)

get_column_types(cols, rws) ==
    scan_rows([c \in Range(cols) |-> "INTEGER"], cols, rws, 1)

(***************************************************************************)
(* row_to_select and the parts csv_to_sql appends                          *)
(***************************************************************************)
RECURSIVE join(_, _)
\* sep.join(parts)
join(sep, parts) ==
    IF parts = <<>> THEN <<>>
    ELSE IF Len(parts) = 1 THEN parts[1]
    ELSE parts[1] \o sep \o join(sep, Tail(parts))

select_part(col, val, sql_type) ==
    <<"CAST(", "'">> \o replace_quote(strip(val))
        \o <<"'", " AS ", sql_type, ") AS ">> \o col

row_to_select_unescaped(cols, row, types) ==
    <<"SELECT ">> \o
    join(<<", ">>,
         [k \in 1..Min(Len(cols), Len(row)) |->
            <<"CAST(", "'">> \o strip(row[k])
                \o <<"'", " AS ", types[cols[k]], ") AS ">> \o cols[k]])

row_to_select_value_type(cols, row, types) ==
    <<"SELECT ">> \o
    join(<<", ">>,
         [k \in 1..Min(Len(cols), Len(row)) |->
            select_part(cols[k], row[k], infer_sql_type(row[k])[2])])

row_to_select(cols, row, types) ==
    <<"SELECT ">> \o
    join(<<", ">>,
         [k \in 1..Min(Len(cols), Len(row)) |->
            select_part(cols[k], row[k], types[cols[k]])])

\* the two parts one iteration of csv_to_sql's loop appends, for the row of
\* index idx (0-based) of n rows
loop_parts_union_after_last(cols, row, types, idx, n) ==
    << <<"\t">> \o row_to_select(cols, row, types),
       IF idx < n THEN <<" UNION ALL">> ELSE <<>> >>

loop_parts(cols, row, types, idx, n) ==
    << <<"\t">> \o row_to_select(cols, row, types),
       IF idx < n - 1 THEN <<" UNION ALL">> ELSE <<>> >>

Opening == <<"WITH data AS (">>
Closing == <<") \nSELECT * FROM data;">>
Usage == <<"Usage: python csv2sql.py <csv file>">>

(***************************************************************************)
(* The inputs of a run.                                                    *)
(***************************************************************************)
Cells == { <<"1">>, <<"2", ".", "5">>, <<"'">>, <<" ", "x">> }

HeaderRecords ==
    { <<>>,
      << <<"a">> >>,
      << <<"a">>, <<"1", "b">> >>,
      << <<"a">>, <<"a">> >>,
      << <<"a">>, <<>> >> }

\* a data record has as many cells as some header, so that against another
\* header it has more cells, fewer cells, or none (a blank line)
RowRecords == UNION {[1..Len(h) -> Cells] : h \in HeaderRecords}

RECURSIVE RowLists(_)
\* the lists of at most n data records
RowLists(n) ==
    IF n = 0 THEN {<<>>}
    ELSE LET shorter == RowLists(n - 1) IN
         shorter \cup {Append(l, r) : l \in {x \in shorter : Len(x) = n - 1},
                                      r \in RowRecords}

Files ==
    {File("missing", <<>>, 0), File("unreadable", <<>>, 0), File("file", <<>>, 0)}
    \cup {File("file", <<h>> \o l, 0) : h \in HeaderRecords, l \in RowLists(MaxRows)}
    \cup {File("file", << << <<"a">> >> >> \o l, b) :
            l \in RowLists(1), b \in 1..2}

Path == "data.csv"

Argvs == {<<>>, <<Path>>, <<Path, "extra">>}

(***************************************************************************)
(* The run of main().                                                      *)
(***************************************************************************)
NoUnit == arg = NONE /\ ret = NONE

Init ==
    /\ argv \in Argvs
    /\ file \in IF Len(argv) = 1 THEN Files ELSE {File("missing", <<>>, 0)}
    /\ pc = "main"
    /\ columns = <<>>
    /\ rows = <<>>
    /\ column_types = <<>>
    /\ i = 0
    /\ sql_parts = <<>>
    /\ result = <<>>
    /\ exc = NoException
    /\ stdout = <<>>
    /\ stderr = <<>>
    /\ exit_code = NONE
    /\ NoUnit

\* main, lines 186-188: the wrong number of arguments
MainUsage ==
    /\ pc = "main"
    /\ Len(argv) # 1
    /\ stdout' = Append(stdout, Usage)
    /\ exit_code' = 1
    /\ pc' = "exit"
    /\ UNCHANGED <<argv, file, columns, rows, column_types, i, sql_parts,
                   result, exc, stderr, arg, ret>>

\* main calls csv_to_sql, which calls get_data
CallGetData ==
    /\ pc = "main"
    /\ Len(argv) = 1
    /\ LET r == get_data(file, argv[1]) IN
       IF r.raised
       THEN /\ exc' = r
            /\ pc' = "except"
            /\ UNCHANGED <<columns, rows>>
       ELSE /\ columns' = r.value.columns
            /\ rows' = r.value.rows
            /\ pc' = "get_column_types"
            /\ UNCHANGED exc
    /\ UNCHANGED <<argv, file, column_types, i, sql_parts, result, stdout,
                   stderr, exit_code, arg, ret>>

\* csv_to_sql, lines 168-170
CallGetColumnTypes ==
    /\ pc = "get_column_types"
    /\ column_types' = get_column_types(columns, rows)
    /\ sql_parts' = <<Opening>>
    /\ i' = 0
    /\ pc' = "render"
    /\ UNCHANGED <<argv, file, columns, rows, result, exc, stdout, stderr,
                   exit_code, arg, ret>>

\* csv_to_sql, lines 172-177: one iteration of the loop
RenderRow ==
    /\ pc = "render"
    /\ i < Len(rows)
    /\ LET row == rows[i + 1] IN
       IF Len(row) # Len(columns)
       THEN /\ exc' = Exception("ValueError",
                        <<"Row ", "%d", " has ", "%d", " columns, expected ", "%d">>,
                        <<i + 1, Len(row), Len(columns)>>)
            /\ pc' = "except"
            /\ UNCHANGED <<sql_parts, i>>
       ELSE /\ sql_parts' = sql_parts
                    \o loop_parts(columns, row, column_types, i, Len(rows))
            /\ i' = i + 1
            /\ UNCHANGED <<exc, pc>>
    /\ UNCHANGED <<argv, file, columns, rows, column_types, result, stdout,
                   stderr, exit_code, arg, ret>>

\* csv_to_sql, lines 179-181: after the loop
ReturnSql ==
    /\ pc = "render"
    /\ i = Len(rows)
    /\ sql_parts' = Append(sql_parts, Closing)
    /\ result' = join(<<"\n">>, sql_parts')
    /\ pc' = "print"
    /\ UNCHANGED <<argv, file, columns, rows, column_types, i, exc, stdout,
                   stderr, exit_code, arg, ret>>

\* main, line 191
PrintResult ==
    /\ pc = "print"
    /\ stdout' = Append(stdout, result)
    /\ exit_code' = 0
    /\ pc' = "exit"
    /\ UNCHANGED <<argv, file, columns, rows, column_types, i, sql_parts,
                   result, exc, stderr, arg, ret>>

\* main, lines 193-195
HandleException ==
    /\ pc = "except"
    /\ stderr' = Append(stderr, [msg |-> <<"Error: ">> \o exc.msg, nums |-> exc.nums])
    /\ exit_code' = 1
    /\ pc' = "exit"
    /\ UNCHANGED <<argv, file, columns, rows, column_types, i, sql_parts,
                   result, exc, stdout, arg, ret>>

Next ==
    \/ MainUsage
    \/ CallGetData
    \/ CallGetColumnTypes
    \/ RenderRow
    \/ ReturnSql
    \/ PrintResult
    \/ HandleException

Spec == Init /\ [][Next]_vars

(***************************************************************************)
(* Unit runs: one function applied to one argument.                        *)
(***************************************************************************)
SeqsUpTo(S, n) == UNION {[1..m -> S] : m \in 0..n}

Idle ==
    /\ argv = <<>>
    /\ file = File("missing", <<>>, 0)
    /\ columns = <<>>
    /\ rows = <<>>
    /\ column_types = <<>>
    /\ i = 0
    /\ sql_parts = <<>>
    /\ result = <<>>
    /\ exc = NoException
    /\ stdout = <<>>
    /\ stderr = <<>>
    /\ exit_code = NONE

InferChars == {" ", "+", "-", ".", "0", "1", "5", "a"}

LongValues ==
    { <<"1", ".", "2", ".", "3">>,
      <<" ", "1", "2", ".", "0", " ">>,
      <<"-", "1", "0", ".", "0", "0">>,
      <<"2", "1", "4", "7", "4", "8", "3", "6", "4", "7">>,
      <<"2", "1", "4", "7", "4", "8", "3", "6", "4", "8">>,
      <<"-", "2", "1", "4", "7", "4", "8", "3", "6", "4", "8">>,
      <<"-", "2", "1", "4", "7", "4", "8", "3", "6", "4", "9">>,
      <<"2", "1", "4", "7", "4", "8", "3", "6", "4", "7", ".", "0">>,
      <<"2", "1", "4", "7", "4", "8", "3", "6", "4", "7", ".", "5">>,
      <<"-", "2", "1", "4", "7", "4", "8", "3", "6", "4", "8", ".", "0">>,
      <<"1", "2", "3", "4", "5", "6", "7", "8", "9">>,
      <<"9", "9", "9", "9", "9", "9", "9", "9", "9", "9", "9">>,
      <<"-", "0", "0", "5", "0", "0", "0", "0", "0", "0", "0", "0">>,
      <<"i", "t", "'", "s">> }

InferValues == SeqsUpTo(InferChars, MaxValueLen) \cup LongValues

InitInfer ==
    /\ pc = "call_infer"
    /\ arg \in InferValues
    /\ ret = NONE
    /\ Idle

ApplyInfer ==
    /\ pc = "call_infer"
    /\ ret' = infer_sql_type(arg)
    /\ pc' = "ret_infer"
    /\ UNCHANGED <<argv, file, columns, rows, column_types, i, sql_parts,
                   result, exc, stdout, stderr, exit_code, arg>>

SpecInfer == InitInfer /\ [][ApplyInfer]_vars

HeaderChars == {" ", "1", "a", "Z", "_", "-"}

HeaderValues ==
    SeqsUpTo(HeaderChars, MaxHeaderLen)
    \cup { <<"1", "s", "t", " ", "N", "a", "m", "e">> }

InitClean ==
    /\ pc = "call_clean"
    /\ arg \in HeaderValues
    /\ ret = NONE
    /\ Idle

ApplyClean ==
    /\ pc = "call_clean"
    /\ ret' = clean_column_name(arg)
    /\ pc' = "ret_clean"
    /\ UNCHANGED <<argv, file, columns, rows, column_types, i, sql_parts,
                   result, exc, stdout, stderr, exit_code, arg>>

SpecClean == InitClean /\ [][ApplyClean]_vars

(***************************************************************************)
(* What the claims speak of, stated without the program's operators.       *)
(***************************************************************************)
Types == {"INTEGER", "NUMERIC", "TEXT"}

IdentChars == Lower \cup Upper \cup Digits \cup {"_"}

\* v without its leading and trailing whitespace
Trimmed(v) ==
    LET cuts == {ab \in (1..Len(v) + 1) \X (0..Len(v)) :
                    /\ ab[1] <= ab[2] + 1
                    /\ \A k \in 1..Len(v) :
                          (k < ab[1] \/ k > ab[2]) => v[k] \in Whitespace
                    /\ ab[1] <= ab[2] =>
                          v[ab[1]] \notin Whitespace /\ v[ab[2]] \notin Whitespace}
        ab   == CHOOSE c \in cuts : TRUE
    IN  SubSeq(v, ab[1], ab[2])

\* INTEGER < NUMERIC < TEXT
Rank(t) == CASE t = "INTEGER" -> 1 [] t = "NUMERIC" -> 2 [] t = "TEXT" -> 3

\* the join of a set of types (INTEGER for no type at all)
JoinOf(ts) ==
    IF ts = {} THEN "INTEGER"
    ELSE CHOOSE t \in ts : \A u \in ts : Rank(u) <= Rank(t)

RECURSIVE NumVal(_)
\* the number a short digit string writes
NumVal(d) ==
    IF d = <<>> THEN 0 ELSE 10 * NumVal(SubSeq(d, 1, Len(d) - 1)) + DigitVal(d[Len(d)])

\* t is a decimal numeral: an optional '-', digits with at most one '.',
\* and at least one digit
Unsigned(t) == IF t # <<>> /\ t[1] = "-" THEN Tail(t) ELSE t

IsNumeral(t) ==
    LET body == Unsigned(t) IN
    /\ \A k \in 1..Len(body) : body[k] \in Digits \cup {"."}
    /\ Cardinality({k \in 1..Len(body) : body[k] = "."}) <= 1
    /\ \E k \in 1..Len(body) : body[k] \in Digits

\* the position of the point of a numeral (past its end when it has none)
PointAt(body) ==
    IF \E k \in 1..Len(body) : body[k] = "."
    THEN CHOOSE k \in 1..Len(body) : body[k] = "."
    ELSE Len(body) + 1

IsIntegral(t) ==
    LET body == Unsigned(t) IN
    \A k \in 1..Len(body) : k > PointAt(body) => body[k] = "0"

\* the integral numeral t is within [-2^31, 2^31 - 1]: its integer part,
\* without leading zeros, has fewer than 10 digits, or has 10 and is at most
\* 21474 83647 (21474 83648 when negative)
WithinInt32(t) ==
    LET body    == Unsigned(t)
        whole   == SubSeq(body, 1, PointAt(body) - 1)
        nonzero == {k \in 1..Len(whole) : whole[k] # "0"}
        first   == IF nonzero = {} THEN Len(whole) + 1
                   ELSE CHOOSE k \in nonzero : \A m \in nonzero : k <= m
        sig     == SubSeq(whole, first, Len(whole))
        high    == NumVal(SubSeq(sig, 1, 5))
        low     == NumVal(SubSeq(sig, 6, 10))
        limit   == IF t[1] = "-" THEN 83648 ELSE 83647
    IN  \/ Len(sig) < 10
        \/ Len(sig) = 10 /\ (high < 21474 \/ (high = 21474 /\ low <= limit))

\* the classification C2 states for a cell
ClaimedType(v) ==
    LET t == Trimmed(v) IN
    IF \/ t = <<>>
       \/ t[1] = "+"
       \/ t[1] = "0"
       \/ \E k \in 1..Len(t) : t[k] \notin Digits \cup {".", "-"}
    THEN "TEXT"
    ELSE IF ~IsNumeral(t) THEN "TEXT"
    ELSE IF IsIntegral(t) /\ WithinInt32(t) THEN "INTEGER"
    ELSE "NUMERIC"

C8_CleanColumnName ==
    pc = "ret_clean" =>
        LET mapped == [k \in 1..Len(arg) |->
                          IF arg[k] \in IdentChars THEN arg[k] ELSE "_"]
            digit  == mapped # <<>> /\ mapped[1] \in Digits
        IN  /\ ~ret.raised
            /\ ret.value = IF digit THEN <<"c", "o", "l", "_">> \o mapped ELSE mapped
            /\ \A k \in 1..Len(ret.value) : ret.value[k] \in IdentChars
            /\ ret.value # <<>> => ret.value[1] \notin Digits

(***************************************************************************)
(* The runs of the program the claims speak of.                            *)
(***************************************************************************)
\* the run has ended with the SQL printed
Converted == pc = "exit" /\ exit_code = 0

\* the file can be read and has a header record and data records
HasData == file.kind = "file" /\ file.bad = 0 /\ Len(file.records) >= 2
           /\ file.records[1] # <<>>

DataRows == Tail(file.records)

\* the data rows whose length differs from the header's, by 1-based index
Mismatched == {r \in 1..Len(DataRows) : Len(DataRows[r]) # Len(file.records[1])}

RowError(r) ==
    Exception("ValueError",
              <<"Row ", "%d", " has ", "%d", " columns, expected ", "%d">>,
              <<r, Len(DataRows[r]), Len(file.records[1])>>)

(***************************************************************************)
(* C1: for every column position, the type get_column_types assigns to    *)
(* the column is the join, under INTEGER < NUMERIC < TEXT, of the          *)
(* classifications of the cells at that position across all rows, also     *)
(* when several columns have the same sanitized name.                      *)
(***************************************************************************)
C1_ColumnTypeIsJoin ==
    pc = "render" =>
        \A k \in 1..Len(columns) :
            LET having == {r \in 1..Len(rows) : Len(rows[r]) >= k} IN
            having # {} =>
                column_types[columns[k]] =
                    JoinOf({ClaimedType(rows[r][k]) : r \in having})

(***************************************************************************)
(* C3: whenever a data row has a number of cells different from the        *)
(* number of header columns, csv_to_sql fails instead of returning SQL,    *)
(* and the error names the first such row (1-based, among the data rows),  *)
(* its cell count and the expected count; when every row has as many cells *)
(* as there are columns, no such error is raised.                          *)
(***************************************************************************)
C3_MismatchIdentified ==
    (HasData /\ pc \in {"print", "except"}) =>
        IF Mismatched # {}
        THEN /\ pc = "except"
             /\ exc = RowError(CHOOSE r \in Mismatched : \A q \in Mismatched : r <= q)
        ELSE \A r \in 1..Len(DataRows) : ~(pc = "except" /\ exc = RowError(r))

(***************************************************************************)
(* C4: get_data takes the first record as the header and returns all the   *)
(* remaining records, in file order, as the rows; it fails, returning no   *)
(* columns and no rows, when the file does not exist, is completely empty, *)
(* has an empty first record, or has a header and no data rows.            *)
(***************************************************************************)
C4_GetData ==
    /\ pc = "get_column_types" =>
          /\ file.kind = "file"
          /\ file.records # <<>>
          /\ Len(columns) = Len(file.records[1])
          /\ Len(rows) = Len(file.records) - 1
          /\ \A r \in 1..Len(rows) : rows[r] = file.records[r + 1]
    /\ (/\ pc # "main"
        /\ Len(argv) = 1
        /\ \/ file.kind = "missing"
           \/ file.records = <<>>
           \/ file.records[1] = <<>>
           \/ Len(file.records) = 1)
       => /\ pc \in {"except", "exit"}
          /\ exc.raised
          /\ columns = <<>> /\ rows = <<>>
          /\ result = <<>>

\* C4's case: get_data has returned two different data rows
C4_Witness ==
    /\ pc = "get_column_types"
    /\ Len(rows) = 2
    /\ rows[1] # rows[2]

(***************************************************************************)
(* C5: every run of the program ends in exactly one of two outcomes:       *)
(* success, the SQL printed to standard output; or error, a single message *)
(* printed to standard error and a non-zero exit code.  Every failure, an  *)
(* invocation without exactly one path argument included, takes the error  *)
(* outcome.                                                                *)
(***************************************************************************)
SuccessOutcome == exit_code = 0 /\ result # <<>> /\ stdout = <<result>> /\ stderr = <<>>

ErrorOutcome == exit_code # 0 /\ Len(stderr) = 1

C5_TwoOutcomes ==
    pc = "exit" =>
        /\ SuccessOutcome \/ ErrorOutcome
        /\ ~(SuccessOutcome /\ ErrorOutcome)
        /\ (Len(argv) # 1 \/ exc.raised) => ErrorOutcome

(***************************************************************************)
(* C10: output is all-or-nothing: nothing is written to standard output    *)
(* until the whole file has been read and every row validated and          *)
(* rendered, so a run that fails at any step writes no SQL, not even a     *)
(* prefix of it, to standard output.                                       *)
(***************************************************************************)
C10_AllOrNothing ==
    stdout # <<>> =>
        /\ HasData
        /\ rows = DataRows
        /\ Mismatched = {}
        /\ i = Len(rows)
        /\ ~exc.raised
        /\ stdout = <<result>>

(***************************************************************************)
(* Reading a generated text back, as a SQL reader would: a string literal  *)
(* runs from its opening quote to the first quote that is not doubled, and *)
(* a doubled quote inside it stands for one quote.                         *)
(***************************************************************************)
At(t, p) == IF p \in 1..Len(t) THEN t[p] ELSE "<end>"

RECURSIVE LiteralEnd(_, _)
\* the position of the quote closing the literal whose text starts at p
\* (0: the literal is not closed)
LiteralEnd(t, p) ==
    IF p > Len(t) THEN 0
    ELSE IF t[p] # "'" THEN LiteralEnd(t, p + 1)
    ELSE IF At(t, p + 1) = "'" THEN LiteralEnd(t, p + 2)
    ELSE p

RECURSIVE Unescaped(_)
\* the string a literal's text denotes
Unescaped(raw) ==
    IF raw = <<>> THEN <<>>
    ELSE IF raw[1] = "'" THEN <<"'">> \o Unescaped(SubSeq(raw, 3, Len(raw)))
    ELSE <<raw[1]>> \o Unescaped(Tail(raw))

RECURSIVE NameRun(_, _)
\* the number of consecutive identifier characters of t from position p on
NameRun(t, p) ==
    IF At(t, p) \in IdentChars THEN 1 + NameRun(t, p + 1) ELSE 0

Unread == [ok |-> FALSE]

\* CAST('<value>' AS <type>) AS <name>, from position p
ReadItem(t, p) ==
    LET e == LiteralEnd(t, p + 2)
        n == NameRun(t, e + 4)
    IN  IF /\ At(t, p) = "CAST("
           /\ At(t, p + 1) = "'"
           /\ e > 0
           /\ At(t, e + 1) = " AS "
           /\ At(t, e + 2) \in Types
           /\ At(t, e + 3) = ") AS "
           /\ n >= 1
        THEN [ok    |-> TRUE,
              raw   |-> SubSeq(t, p + 2, e - 1),
              value |-> Unescaped(SubSeq(t, p + 2, e - 1)),
              type  |-> t[e + 2],
              name  |-> SubSeq(t, e + 4, e + 3 + n),
              next  |-> e + 4 + n]
        ELSE Unread

RECURSIVE ReadItems(_, _)
\* items separated by ", ", from position p
ReadItems(t, p) ==
    LET item == ReadItem(t, p) IN
    IF ~item.ok THEN Unread
    ELSE IF At(t, item.next) # ", "
    THEN [ok |-> TRUE, items |-> <<item>>, next |-> item.next]
    ELSE LET more == ReadItems(t, item.next + 1) IN
         IF ~more.ok THEN Unread
         ELSE [ok |-> TRUE, items |-> <<item>> \o more.items, next |-> more.next]

RECURSIVE ReadSelects(_, _)
\* the SELECT statements, each on a line of its own, a line ' UNION ALL'
\* between two of them and an empty line after the last, from position p
ReadSelects(t, p) ==
    LET sel == IF At(t, p) = "\t" /\ At(t, p + 1) = "SELECT "
               THEN ReadItems(t, p + 2) ELSE Unread
    IN  IF ~sel.ok \/ At(t, sel.next) # "\n" THEN Unread
        ELSE IF At(t, sel.next + 1) = "\n"
        THEN [ok |-> TRUE, selects |-> <<sel.items>>, unions |-> 0,
              next |-> sel.next + 2]
        ELSE IF At(t, sel.next + 1) = " UNION ALL" /\ At(t, sel.next + 2) = "\n"
        THEN LET more == ReadSelects(t, sel.next + 3) IN
             IF ~more.ok THEN Unread
             ELSE [ok |-> TRUE, selects |-> <<sel.items>> \o more.selects,
                   unions |-> 1 + more.unions, next |-> more.next]
        ELSE Unread

\* WITH data AS ( <selects> ) SELECT * FROM data;
ReadSql(t) ==
    IF At(t, 1) # Opening[1] \/ At(t, 2) # "\n" THEN Unread
    ELSE LET body == ReadSelects(t, 3) IN
         IF body.ok /\ body.next = Len(t) /\ At(t, body.next) = Closing[1]
         THEN body
         ELSE Unread

Printed == ReadSql(stdout[1])

Count(s, c) == Cardinality({k \in 1..Len(s) : s[k] = c})

(***************************************************************************)
(* C6: for every converted file with n >= 1 data rows and k columns, the   *)
(* SQL is 'WITH data AS (', then exactly n SELECTs in the order of the     *)
(* data rows, then ') SELECT * FROM data;'; each SELECT has exactly k      *)
(* items CAST('<value>' AS <column type>) AS <column name> in header       *)
(* order; and there are exactly n-1 'UNION ALL', one after every row but   *)
(* the last.                                                               *)
(***************************************************************************)
C6_SqlShape ==
    Converted =>
        /\ Len(rows) >= 1
        /\ Printed.ok
        /\ Len(Printed.selects) = Len(rows)
        /\ Printed.unions = Len(rows) - 1
        /\ \A r \in 1..Len(rows) :
              /\ Len(Printed.selects[r]) = Len(columns)
              /\ \A k \in 1..Len(columns) :
                    /\ Printed.selects[r][k].name = columns[k]
                    /\ Printed.selects[r][k].type = column_types[columns[k]]
                    /\ Printed.selects[r][k].value = Trimmed(rows[r][k])

\* C6's case: two different rows of two columns have been printed
C6_Witness ==
    /\ Converted
    /\ Len(rows) = 2 /\ Len(columns) = 2
    /\ rows[1] # rows[2]
    /\ Printed.ok /\ Printed.unions = 1

(***************************************************************************)
(* C7 as stated: for every converted file, the literal inside each CAST,   *)
(* read with each doubled quote as one quote, equals the original cell     *)
(* value, every quote of the cell appears doubled, and the number and the  *)
(* order of the rows are those of the CSV.                                 *)
(***************************************************************************)
C7_RoundTripExact ==
    Converted =>
        /\ Printed.ok
        /\ Len(Printed.selects) = Len(DataRows)
        /\ \A r \in 1..Len(DataRows) :
              /\ Len(Printed.selects[r]) = Len(DataRows[r])
              /\ \A k \in 1..Len(DataRows[r]) :
                    /\ Printed.selects[r][k].value = DataRows[r][k]
                    /\ Count(Printed.selects[r][k].raw, "'")
                          = 2 * Count(DataRows[r][k], "'")

(***************************************************************************)
(* C7 as amended: the literal equals the original cell value without its   *)
(* leading and trailing whitespace (the rest as stated).                   *)
(***************************************************************************)
C7_RoundTripTrimmed ==
    Converted =>
        /\ Printed.ok
        /\ Len(Printed.selects) = Len(DataRows)
        /\ \A r \in 1..Len(DataRows) :
              /\ Len(Printed.selects[r]) = Len(DataRows[r])
              /\ \A k \in 1..Len(DataRows[r]) :
                    /\ Printed.selects[r][k].value = Trimmed(DataRows[r][k])
                    /\ Count(Printed.selects[r][k].raw, "'")
                          = 2 * Count(Trimmed(DataRows[r][k]), "'")

\* C7's case: a cell holding a quote and a cell with whitespace around it
\* have been printed
C7_Witness ==
    /\ Converted
    /\ Printed.ok
    /\ \E r \in 1..Len(DataRows) : \E k \in 1..Len(DataRows[r]) :
          /\ Count(DataRows[r][k], "'") > 0
          /\ Count(Printed.selects[r][k].raw, "'") = 2
    /\ \E r \in 1..Len(DataRows) : \E k \in 1..Len(DataRows[r]) :
          /\ DataRows[r][k] # Trimmed(DataRows[r][k])
          /\ Printed.selects[r][k].value = Trimmed(DataRows[r][k])

(***************************************************************************)
(* C9: the column types are computed once, after all rows have been read   *)
(* and before the first row is rendered, and do not change afterwards; in  *)
(* the SQL every row casts a given column position to the same type, the   *)
(* one inferred from all the rows and not from the rows rendered so far.   *)
(***************************************************************************)
\* the join of the classifications of every cell, of any row, in a column
\* of this name
TypeOfName(name) ==
    JoinOf({ClaimedType(rows[r][k]) :
                <<r, k>> \in {rk \in (1..Len(rows)) \X (1..Len(columns)) :
                                 /\ rk[2] <= Len(rows[rk[1]])
                                 /\ columns[rk[2]] = name}})

C9_TypesInPrintedRows ==
    Converted =>
        /\ Printed.ok
        /\ \A r \in 1..Len(Printed.selects) : \A k \in 1..Len(Printed.selects[r]) :
              /\ Printed.selects[r][k].type = Printed.selects[1][k].type
              /\ Printed.selects[r][k].type = TypeOfName(columns[k])

C9_TypesComputedOnce ==
    /\ column_types' # column_types =>
          /\ pc = "get_column_types"
          /\ rows = DataRows
          /\ sql_parts = <<>>
    /\ pc' = "get_column_types" => pc = "main"
    /\ pc = "render" => column_types' = column_types

C9_TypesFixed ==
    [](C9_TypesInPrintedRows) /\ [][C9_TypesComputedOnce]_vars

\* C9's case: a column whose rows hold an INTEGER cell and a NUMERIC cell
\* has been printed, NUMERIC in both rows
C9_Witness ==
    /\ Converted
    /\ Len(rows) = 2
    /\ ClaimedType(rows[1][1]) = "INTEGER"
    /\ ClaimedType(rows[2][1]) = "NUMERIC"
    /\ Printed.ok
    /\ Printed.selects[1][1].type = "NUMERIC"
    /\ Printed.selects[2][1].type = "NUMERIC"
    /\ i = 2

=============================================================================
